---- MODULE Spec2Model ----
(***************************************************************************)
(* Model of the PNG helper class `png` (src/png_utils.js):                 *)
(*   parseChunks      - walks the chunk stream of a PNG byte buffer        *)
(*   reverseFiltering - undoes the per-scanline PNG filters                *)
(*   subImage         - crops a tile out of the reconstructed pixel grid   *)
(* and of the older copy of reverseFiltering kept in src/unnamed/part_000. *)
(* Byte buffers are sequences of naturals in 0..255; a JavaScript offset o *)
(* is element o + 1 of the sequence.                                       *)
(***************************************************************************)
EXTENDS Integers, Sequences, FiniteSets, TLC

VARIABLES
    arrayBuffer,   \* parseChunks: the raw PNG file bytes
    pos,           \* parseChunks: cursor of the while loop
    chunks,        \* parseChunks: local accumulator of chunk records
    pstate,        \* parseChunks: "running", "done" (returned) or "failed" (threw)
    perr,          \* parseChunks: message / kind of the error thrown
    warnings,      \* console.warn channel
    data,          \* this.data: the chunk sequence assigned by #initialize
    array,         \* reverseFiltering: Array.from(arrayBuffer), the filtered payload
    i,             \* reverseFiltering: loop index into array
    lineNum,       \* reverseFiltering: index of the current row of res
    pixelCount,    \* reverseFiltering: pixels already pushed to the current row
    filterByte,    \* reverseFiltering: filter type of the current row
    res,           \* reverseFiltering: local accumulator of rows
    fstate,        \* reverseFiltering: "idle", "running", "done" or "failed"
    ferr,          \* reverseFiltering: message of the error thrown
    grid,          \* the value returned by reverseFiltering
    source,        \* the pixel grid the payload was made from
    ftypes,        \* the filter type given to each row of source
    mode,          \* "raw": rows of source taken as filtered bytes; "filtered":
                   \* rows of source put through the PNG forward filter
    imageDataBuffer,  \* subImage: the grid argument
    tileSize,      \* subImage: the {x, y} argument
    margins,       \* subImage: the {xMargin, yMargin} argument
    subImage,      \* subImage: the value returned
    sstate,        \* subImage: "idle", "called", "done" or "failed"; after a
                   \* write by the caller "subWritten" or "sourceWritten"
    serr,          \* subImage: message of the error thrown
    heap           \* the pixel-group arrays that grid rows hold by reference

parseVars == <<arrayBuffer, pos, chunks, pstate, perr, warnings>>
filterVars == <<array, i, lineNum, pixelCount, filterByte, res, fstate, ferr, grid,
                source, ftypes, mode>>
subVars == <<imageDataBuffer, tileSize, margins, subImage, sstate, serr, heap>>
vars == <<parseVars, data, filterVars, subVars>>

\* ------------------------------------------------------------------ bounds
MaxChunks == 3
MaxCut == 3
MaxWidth == 2
MaxHeight == 2
MaxTrim == 5
MaxGrid == 4
MaxTile == 3
MaxMargin == 2

\* ------------------------------------------------------------ JS helpers
Null == "null"

\* A value that may be absent (this.data before #initialize, the result of a
\* call that has not returned): None, or Some(v) holding v.
None == <<>>
Some(v) == <<v>>
Value(o) == o[1]

Min(a, b) == IF a < b THEN a ELSE b
Max(a, b) == IF a > b THEN a ELSE b

\* Array.prototype.slice(start, end): negative indices count from the end,
\* both ends are clamped to the array, an empty range gives [].
slice(arr, start, end) ==
    LET len == Len(arr)
        s == IF start < 0 THEN Max(len + start, 0) ELSE Min(start, len)
        e == IF end < 0 THEN Max(len + end, 0) ELSE Min(end, len)
    IN  IF s >= e THEN <<>> ELSE SubSeq(arr, s + 1, e)

\* DataView accessors throw a RangeError when the read leaves the buffer.
RangeError(buf, o, n) == o + n > Len(buf)

\* The value read by DataView.getUint8 (only evaluated when it does not throw;
\* the ELSE branch keeps the operator total).
getUint8(buf, o) == IF o < Len(buf) THEN buf[o + 1] ELSE 0

\* DataView.getInt8: two's complement reading of one byte.
getInt8(buf, o) == IF getUint8(buf, o) >= 128 THEN getUint8(buf, o) - 256 ELSE getUint8(buf, o)

\* Faulty variant of getUint32: the bytes taken in little-endian order.
getUint32LittleEndian(buf, o) ==
    getUint8(buf, o) + getUint8(buf, o + 1) * 256
        + getUint8(buf, o + 2) * 65536 + getUint8(buf, o + 3) * 16777216
\* DataView.getUint32 with the default (big-endian) byte order.
getUint32(buf, o) ==
    getUint8(buf, o) * 16777216 + getUint8(buf, o + 1) * 65536
        + getUint8(buf, o + 2) * 256 + getUint8(buf, o + 3)

\* TextDecoder("utf-8").decode on the bytes of a type tag, as a sequence of
\* code points: an ASCII byte is its own code point; a byte 0xF8..0xFF can
\* never be part of a UTF-8 sequence and decodes to U+FFFD (65533).  Tags are
\* drawn from these two ranges only.
ReplacementChar == 65533
utf8Decode(bs) == [k \in 1..Len(bs) |-> IF bs[k] < 128 THEN bs[k] ELSE ReplacementChar]

IHDR == <<73, 72, 68, 82>>
PLTE == <<80, 76, 84, 69>>
tRNS == <<116, 82, 78, 83>>
IDAT == <<73, 68, 65, 84>>

ErrPLTELength == "PLTE chunk length must be divisible by 3."
ErrPLTEMissing == "Images of colourtype 3 must include a PLTE chunk."

\* --------------------------------------- an operation that is not in use
ParseIdle ==
    /\ arrayBuffer = <<>>
    /\ pos = 8
    /\ chunks = <<>>
    /\ pstate = "idle"
    /\ perr = Null
    /\ warnings = <<>>

FilterIdle ==
    /\ array = <<>>
    /\ i = 0
    /\ lineNum = -1
    /\ pixelCount = 0
    /\ filterByte = Null
    /\ res = <<>>
    /\ fstate = "idle"
    /\ ferr = Null
    /\ grid = None
    /\ source = <<>>
    /\ ftypes = <<>>
    /\ mode = Null

SubIdle ==
    /\ imageDataBuffer = Null
    /\ tileSize = Null
    /\ margins = Null
    /\ subImage = None
    /\ sstate = "idle"
    /\ serr = Null
    /\ heap = <<>>

\* ------------------------------------------------------------ parseChunks
\* The HeaderInfo decoded at absolute stream offsets 16..28.
chunkInfo(buf) ==
    [widthPixels |-> getUint32(buf, 16),
     heightPixels |-> getUint32(buf, 20),
     bitDepth |-> getUint8(buf, 24),
     colourType |-> getUint8(buf, 25),
     compressionMethod |-> getInt8(buf, 26),
     filterMethod |-> getUint8(buf, 27),
     interlaceMethod |-> getUint8(buf, 28)]

\* The reads of chunkInfo throw when the buffer ends before offset 29.
chunkInfoThrows(buf) ==
    \/ RangeError(buf, 16, 4) \/ RangeError(buf, 20, 4)
    \/ \E o \in 24..28 : RangeError(buf, o, 1)

\* The plain chunk record pushed by every case of the switch.
chunkRecord(fourCC, size, d, offset, crc) ==
    [fourCC |-> fourCC, size |-> size, data |-> d, offset |-> offset, crc |-> crc]

\* Faulty variant of ihdrRecord: the header fields are not attached.
ihdrRecordNoInfo(rec, buf) == rec
\* The record pushed by case "IHDR": the plain record and its chunkInfo.
ihdrRecord(rec, buf) ==
    [fourCC |-> rec.fourCC, size |-> rec.size, data |-> rec.data,
     offset |-> rec.offset, crc |-> rec.crc, chunkInfo |-> chunkInfo(buf)]

\* chunks[0].chunkInfo.colourType throws a TypeError when chunks is empty
\* (chunks[0] is undefined) or its first record carries no chunkInfo.
colourTypeThrows(cs) == Len(cs) = 0 \/ "chunkInfo" \notin DOMAIN cs[1]

\* Faulty variant of crcPos: the cursor is not moved past the data.
crcPosNoData(offset, size) == offset
\* Position of the CRC field: pos = offset + size.
crcPos(offset, size) == offset + size

\* Faulty variant of plteLengthBad: the wrong divisor.
plteLengthOdd(size) == size % 2 # 0
\* The PLTE length check: size % 3 !== 0.
plteLengthBad(size) == size % 3 # 0

\* Faulty variant of plteMissing: the soft violation is fatal as well.
plteMissingOrUnused(colourType, size) ==
    \/ colourType = 3 /\ size = 0
    \/ (colourType = 0 \/ colourType = 4) /\ size # 0
\* The colour-type-3 check: colourType === 3 && size === 0.
plteMissing(colourType, size) == colourType = 3 /\ size = 0

\* The soft check: (colourType === 0 || colourType === 4) && size !== 0.
plteWarn(colourType, size) == (colourType = 0 \/ colourType = 4) /\ size # 0

WarnText(colourType) == <<"Images of colourtype shouldn't have PLTE chunks", colourType>>

Throw(e) ==
    /\ pstate' = "failed"
    /\ perr' = e
    /\ UNCHANGED <<arrayBuffer, pos, chunks, warnings, data, filterVars, subVars>>

\* One iteration of `while (pos < arrayBuffer.byteLength)`.
ParseStep ==
    /\ pstate = "running"
    /\ pos < Len(arrayBuffer)
    /\ IF RangeError(arrayBuffer, pos, 4) THEN Throw("RangeError")
       ELSE
        LET size == getUint32(arrayBuffer, pos)
            fourCC == utf8Decode(slice(arrayBuffer, pos + 4, pos + 8))
            offset == pos + 8
            cpos == crcPos(offset, size)
        IN  IF RangeError(arrayBuffer, cpos, 4) THEN Throw("RangeError")
            ELSE
             LET crc == getUint32(arrayBuffer, cpos)
                 d == slice(arrayBuffer, offset, offset + size)
                 rec == chunkRecord(fourCC, size, d, offset, crc)
                 Push(r, w) ==
                     /\ chunks' = Append(chunks, r)
                     /\ warnings' = warnings \o w
                     /\ pos' = cpos + 4
                     /\ UNCHANGED <<arrayBuffer, pstate, perr, data, filterVars, subVars>>
             IN  CASE fourCC = IHDR ->
                        IF chunkInfoThrows(arrayBuffer) THEN Throw("RangeError")
                        ELSE Push(ihdrRecord(rec, arrayBuffer), <<>>)
                   [] fourCC = PLTE ->
                        IF plteLengthBad(size) THEN Throw(ErrPLTELength)
                        ELSE IF colourTypeThrows(chunks) THEN Throw("TypeError")
                        ELSE LET ct == chunks[1].chunkInfo.colourType
                             IN  IF plteMissing(ct, size) THEN Throw(ErrPLTEMissing)
                                 ELSE IF plteWarn(ct, size)
                                      THEN Push(rec, <<WarnText(ct)>>)
                                      ELSE Push(rec, <<>>)
                   [] fourCC = tRNS -> Push(rec, <<>>)
                   [] OTHER -> Push(rec, <<>>)

\* The loop ends: `return { chunks: chunks }`, stored in this.data by #initialize.
ParseReturn ==
    /\ pstate = "running"
    /\ pos >= Len(arrayBuffer)
    /\ pstate' = "done"
    /\ data' = Some(chunks)
    /\ UNCHANGED <<arrayBuffer, pos, chunks, perr, warnings, filterVars, subVars>>

\* ------------------------------------------------- input byte streams
Signature == <<137, 80, 78, 71, 13, 10, 26, 10>>

U32BE(n) == <<n \div 16777216, (n \div 65536) % 256, (n \div 256) % 256, n % 256>>

EncodeChunk(type, d, crc) == U32BE(Len(d)) \o type \o d \o crc

\* A 13-byte IHDR payload: 1 x 1 pixels, bit depth 8, the given colour type.
IHDRData(ct) == <<0, 0, 0, 1, 0, 0, 0, 1, 8, ct, 0, 0, 0>>

\* The CRC field is stored, never verified: any 4 bytes will do.
SampleCrc == <<1, 2, 3, 4>>

PaletteBytes == <<10, 20, 30, 40>>

ChunkPool ==
    {EncodeChunk(IHDR, IHDRData(ct), SampleCrc) : ct \in {0, 2, 3, 4}}
    \cup {EncodeChunk(IHDR, <<>>, SampleCrc)}
    \cup {EncodeChunk(PLTE, SubSeq(PaletteBytes, 1, n), SampleCrc) : n \in {0, 2, 3}}
    \cup {EncodeChunk(IDAT, <<7, 9>>, SampleCrc),
          EncodeChunk(tRNS, <<5>>, SampleCrc),
          EncodeChunk(<<255, 68, 65, 84>>, <<>>, SampleCrc)}

RECURSIVE Concat(_)
Concat(ss) == IF ss = <<>> THEN <<>> ELSE Head(ss) \o Concat(Tail(ss))

ChunkSeqs == UNION {[1..n -> ChunkPool] : n \in 0..MaxChunks}

Truncate(s, t) == SubSeq(s, 1, Max(Len(s) - t, 0))

\* Whole streams and streams cut short by 3, 6, ... bytes: the cut falls into
\* the CRC, the data, the type tag or the length field of the last chunk.
Streams == {Truncate(Signature \o Concat(cs), 3 * t) : cs \in ChunkSeqs, t \in 0..MaxCut}

InitParse ==
    /\ arrayBuffer \in Streams
    /\ pos = 8
    /\ chunks = <<>>
    /\ pstate = "running"
    /\ perr = Null
    /\ warnings = <<>>
    /\ data = None
    /\ FilterIdle
    /\ SubIdle

NextParse == ParseStep \/ ParseReturn

SpecParse == InitParse /\ [][NextParse]_vars

\* ------------------------------------------------------- reverseFiltering
ErrFilterByte == "Unexpected filter byte."

\* Faulty variant of subChannel: the left neighbour subtracted, not added.
subChannelMinus(x, a) == (x - a + 256) % 256
\* case 1: (x + prevPixel[idx]) % 256
subChannel(x, a) == (x + a) % 256

\* case 2: (x + prevLinePixel[idx]) % 256
upChannel(x, b) == (x + b) % 256

\* Faulty variant of avgChannel: the average rounded up.
avgChannelCeil(x, left, up) == (x + ((left + up + 1) \div 2)) % 256
\* case 3: (x + Math.floor((left + up) / 2)) % 256
avgChannel(x, left, up) == (x + ((left + up) \div 2)) % 256

Abs(n) == IF n < 0 THEN 0 - n ELSE n

\* case 4: the Paeth predictor and (x + pr) % 256
paethChannel(x, a, b, c) ==
    LET p == a + b - c
        pa == Abs(p - a)
        pb == Abs(p - b)
        pc == Abs(p - c)
        pr == IF pa <= pb /\ pa <= pc THEN a ELSE (IF pb <= pc THEN b ELSE c)
    IN  (x + pr) % 256

\* Faulty variant of unexpectedFilterByte: byte 5 is let through.
unexpectedFilterByteAbove5(fb) == fb \notin 0..5
\* The default branch of the switch: the filter byte is none of 0..4.
unexpectedFilterByte(fb) == fb \notin {0, 1, 2, 3, 4}

\* const { widthPixels } = this.data[0].chunkInfo
widthPixels == Value(data)[1].chunkInfo.widthPixels
\* Faulty variant of widthBytes: the filter byte of the scanline not counted.
widthBytesNoFilterByte == widthPixels * 4
widthBytes == (widthPixels * 4) + 1

\* The pixel pushed by the switch for one loop iteration. r is res after the
\* line start, ln the row index, pc the pixel count, cur the 4 filtered bytes.
reconstructed(fb, r, ln, pc, cur) ==
    LET prevPixel == r[ln + 1][pc + 1]
        prevLinePixel == IF ln > 0 THEN r[ln][pc + 2] ELSE <<0, 0, 0, 0>>
    IN  CASE fb = 0 -> cur
          [] fb = 1 ->
               IF pc > 0
               THEN [idx \in 1..Len(cur) |-> subChannel(cur[idx], prevPixel[idx])]
               ELSE cur
          [] fb = 2 ->
               [idx \in 1..Len(cur) |->
                   upChannel(cur[idx], prevLinePixel[idx])]
          [] fb = 3 ->
               [idx \in 1..Len(cur) |->
                   avgChannel(cur[idx],
                              IF pc > 0 THEN prevPixel[idx] ELSE 0,
                              IF ln > 0 THEN prevLinePixel[idx] ELSE 0)]
          [] fb = 4 ->
               [idx \in 1..Len(cur) |->
                   paethChannel(cur[idx],
                                IF pc > 0 THEN prevPixel[idx] ELSE 0,
                                IF ln > 0 THEN prevLinePixel[idx] ELSE 0,
                                IF pc > 0 /\ ln > 0 THEN r[ln][pc + 1][idx] ELSE 0)]
          [] OTHER -> cur   \* not reached: the default branch throws

\* One iteration of `for (let i = 0; i < array.length; i += 4)`.
FilterStep ==
    /\ fstate = "running"
    /\ i < Len(array)
    /\ LET newLine == i % widthBytes = 0
           fb == IF newLine THEN array[i + 1] ELSE filterByte
           i1 == IF newLine THEN i + 1 ELSE i
           ln == IF newLine THEN lineNum + 1 ELSE lineNum
           pc == IF newLine THEN 0 ELSE pixelCount
           r == IF newLine THEN [k \in 1..(ln + 1) |-> IF k = ln + 1 THEN <<fb>> ELSE res[k]]
                           ELSE res
           curPixel == slice(array, i1, i1 + 4)
       IN  IF unexpectedFilterByte(fb)
           THEN /\ fstate' = "failed"
                /\ ferr' = ErrFilterByte
                /\ filterByte' = fb
                /\ lineNum' = ln
                /\ pixelCount' = pc
                /\ res' = r
                /\ i' = i1
                /\ UNCHANGED <<array, grid>>
           ELSE /\ res' = [r EXCEPT ![ln + 1] = Append(@, reconstructed(fb, r, ln, pc, curPixel))]
                /\ filterByte' = fb
                /\ lineNum' = ln
                /\ pixelCount' = pc + 1
                /\ i' = i1 + 4
                /\ UNCHANGED <<array, fstate, ferr, grid>>
    /\ UNCHANGED <<parseVars, data, source, ftypes, mode, subVars>>

\* The loop ends: `return res`.
FilterReturn ==
    /\ fstate = "running"
    /\ i >= Len(array)
    /\ fstate' = "done"
    /\ grid' = Some(res)
    /\ UNCHANGED <<parseVars, data, array, i, lineNum, pixelCount, filterByte, res,
                   ferr, source, ftypes, mode, subVars>>

\* ------------------------------------------------ input payloads
\* Pixels the input grids are made of; the channels differ so that every
\* wrap-around and every branch of the Paeth predictor occurs, and agree in
\* the last channel so that the three Paeth distances can tie there.
PixelPool == <<(<<0, 255, 100, 7>>), (<<255, 1, 50, 7>>), (<<128, 129, 250, 7>>)>>

\* The grids of h rows of w pixels: the pixel at (row, col) is entry
\* (s + p * row + q * col + t * row * col) mod 3 of the pool.  For w, h <= 2
\* these are all the grids over the pool; every combination of left, upper and
\* upper-left neighbour occurs at every inner position of a larger grid.
Grids(w, h) ==
    {[row \in 1..h |-> [col \in 1..w |->
         PixelPool[((s + p * row + q * col + t * row * col) % Len(PixelPool)) + 1]]] :
       s \in 1..Len(PixelPool), p \in 1..Len(PixelPool),
       q \in 1..Len(PixelPool), t \in 1..Len(PixelPool)}

FilterBytes == 0..5

\* The PNG forward filters (PNG specification, 9.2-9.4), over the original
\* pixels: Filt(x) = (Orig(x) - predictor) mod 256.
PaethPredictor(a, b, c) ==
    LET p == a + b - c
        pa == Abs(p - a)
        pb == Abs(p - b)
        pc == Abs(p - c)
    IN  IF pa <= pb /\ pa <= pc THEN a ELSE IF pb <= pc THEN b ELSE c

Orig(g, row, col, idx) ==
    IF row < 1 \/ col < 1 THEN 0 ELSE g[row][col][idx]

Predictor(f, g, row, col, idx) ==
    LET a == Orig(g, row, col - 1, idx)
        b == Orig(g, row - 1, col, idx)
        c == Orig(g, row - 1, col - 1, idx)
    IN  CASE f = 1 -> a
          [] f = 2 -> b
          [] f = 3 -> (a + b) \div 2
          [] f = 4 -> PaethPredictor(a, b, c)
          [] OTHER -> 0

ForwardPixel(f, g, row, col) ==
    [idx \in 1..4 |-> (g[row][col][idx] - Predictor(f, g, row, col, idx) + 256) % 256]

\* One scanline: the filter byte, then the 4 bytes of each pixel.
Scanline(f, pixels) == <<f>> \o Concat(pixels)

Payload(g, fs, m) ==
    Concat([row \in 1..Len(g) |->
               Scanline(fs[row],
                        IF m = "filtered"
                        THEN [col \in 1..Len(g[row]) |-> ForwardPixel(fs[row], g, row, col)]
                        ELSE g[row])])

HeaderOnly(w, h) ==
    <<[fourCC |-> IHDR,
       chunkInfo |-> [widthPixels |-> w, heightPixels |-> h, bitDepth |-> 8,
                      colourType |-> 6, compressionMethod |-> 0,
                      filterMethod |-> 0, interlaceMethod |-> 0]]>>

InitFilter ==
    /\ ParseIdle
    /\ \E w \in 1..MaxWidth, h \in 1..MaxHeight :
          /\ data = Some(HeaderOnly(w, h))
          /\ source \in Grids(w, h)
          /\ ftypes \in [1..h -> FilterBytes]
    /\ mode \in {"raw", "filtered"}
    \* A raw payload is any byte string: it may end anywhere in its last
    \* scanline, or hold fewer scanlines than the header declares.
    /\ \E t \in 0..MaxTrim :
          /\ mode = "filtered" => t = 0
          /\ array = Truncate(Payload(source, ftypes, mode), t)
    /\ i = 0
    /\ lineNum = -1
    /\ pixelCount = 0
    /\ filterByte = Null
    /\ res = <<>>
    /\ fstate = "running"
    /\ ferr = Null
    /\ grid = None
    /\ SubIdle

NextFilter == FilterStep \/ FilterReturn

SpecFilter == InitFilter /\ [][NextFilter]_vars

\* ------------------------------------------- the stream format (spec 6)
\* length:u32-BE | type:4 bytes | data:length bytes | crc:u32-BE, read
\* directly off the buffer at a chunk cursor c.
RefU32(buf, o) ==
    ((buf[o + 1] * 256 + buf[o + 2]) * 256 + buf[o + 3]) * 256 + buf[o + 4]

RefEnd(buf, c) == c + 12 + RefU32(buf, c)

RefType(buf, c) == SubSeq(buf, c + 5, c + 8)

RefData(buf, c) == SubSeq(buf, c + 9, c + 8 + RefU32(buf, c))

RefCrc(buf, c) == RefU32(buf, c + 8 + RefU32(buf, c))

\* The cursors of the chunks whose length field lies inside the buffer.
RECURSIVE RefCursors(_, _)
RefCursors(buf, c) ==
    IF c + 4 > Len(buf) THEN <<>> ELSE <<c>> \o RefCursors(buf, RefEnd(buf, c))

\* The chunk at c declares more data + CRC than the buffer holds.
Overruns(buf, c) == RefEnd(buf, c) > Len(buf)

HasOverrun(buf) ==
    LET cs == RefCursors(buf, 8) IN \E k \in 1..Len(cs) : Overruns(buf, cs[k])

WellFramed(buf) ==
    /\ Len(buf) >= 8
    /\ SubSeq(buf, 1, 8) = Signature
    /\ LET cs == RefCursors(buf, 8)
       IN  IF cs = <<>> THEN Len(buf) = 8 ELSE RefEnd(buf, cs[Len(cs)]) = Len(buf)

\* A whole chunk with the given type tag starts at cursor c.
WholeChunkAt(buf, c, type) ==
    /\ c + 4 <= Len(buf)
    /\ ~Overruns(buf, c)
    /\ RefType(buf, c) = type

\* The record the format prescribes for the chunk at cursor c (type tag as
\* its 4 raw bytes).
MatchesFrame(rec, buf, c) ==
    /\ rec.size = RefU32(buf, c)
    /\ rec.data = RefData(buf, c)
    /\ rec.crc = RefCrc(buf, c)
    /\ rec.offset = c + 8

\* ------------------------------------------------------------------- C1
\* C1: a stream in which some chunk's declared length makes its data plus
\* CRC run past the end of the buffer is never parsed to completion: no chunk
\* sequence is returned; and no returned record holds fewer data bytes than
\* its declared size.
C1_OverrunNeverReturns ==
    /\ HasOverrun(arrayBuffer) => (pstate # "done" /\ data = None)
    /\ (pstate # "running" /\ HasOverrun(arrayBuffer)) => pstate = "failed"
    /\ data # None => \A k \in 1..Len(Value(data)) : Len(Value(data)[k].data) = Value(data)[k].size

C1_Witness ==
    /\ HasOverrun(arrayBuffer)
    /\ pstate = "failed"
    /\ perr = "RangeError"
    /\ Len(chunks) >= 1

\* ------------------------------------------------------------------- C2
\* The conditions under which parsing a well-framed stream throws.
RefThrows(buf) ==
    LET cs == RefCursors(buf, 8)
    IN  \E k \in 1..Len(cs) :
           \/ RefType(buf, cs[k]) = IHDR /\ Len(buf) < 29
           \/ /\ RefType(buf, cs[k]) = PLTE
              /\ \/ RefU32(buf, cs[k]) % 3 # 0
                 \/ k = 1
                 \/ RefType(buf, cs[1]) # IHDR
                 \/ buf[26] = 3 /\ RefU32(buf, cs[k]) = 0

\* C2 as stated: every well-framed stream is parsed into one record per
\* chunk, in stream order, with size, fourCC (the 4 type bytes), data, crc and
\* offset taken from the frame.
C2_Original ==
    (WellFramed(arrayBuffer) /\ pstate # "running") =>
        /\ pstate = "done"
        /\ LET cs == RefCursors(arrayBuffer, 8)
           IN  /\ Len(Value(data)) = Len(cs)
               /\ \A k \in 1..Len(cs) :
                      /\ MatchesFrame(Value(data)[k], arrayBuffer, cs[k])
                      /\ Value(data)[k].fourCC = RefType(arrayBuffer, cs[k])

\* C2 amended: a well-framed stream is rejected exactly when it holds an IHDR
\* chunk in a buffer shorter than 29 bytes or a PLTE chunk that fails its
\* checks; otherwise there is one record per chunk, in stream order, taken
\* from the frame, the fourCC being the decoded text of the 4 type bytes (the
\* bytes themselves where they are ASCII).
C2_WellFramedParsed ==
    (WellFramed(arrayBuffer) /\ pstate # "running") =>
        IF RefThrows(arrayBuffer) THEN pstate = "failed" /\ data = None
        ELSE
            /\ pstate = "done"
            /\ LET cs == RefCursors(arrayBuffer, 8)
               IN  /\ Len(Value(data)) = Len(cs)
                   /\ \A k \in 1..Len(cs) :
                          /\ MatchesFrame(Value(data)[k], arrayBuffer, cs[k])
                          /\ Len(Value(data)[k].fourCC) = 4
                          /\ \A j \in 1..4 :
                                 LET b == RefType(arrayBuffer, cs[k])[j]
                                 IN  Value(data)[k].fourCC[j] = IF b < 128 THEN b ELSE ReplacementChar

C2_Witness ==
    /\ WellFramed(arrayBuffer)
    /\ pstate = "done"
    /\ Len(Value(data)) = 3
    /\ Value(data)[1].fourCC = IHDR
    /\ Value(data)[2].fourCC = PLTE /\ Value(data)[2].size = 3
    /\ Value(data)[3].fourCC = IDAT /\ Value(data)[3].data = <<7, 9>>

\* ------------------------------------------------------------------- C3
HasBadPLTE(buf) ==
    LET cs == RefCursors(buf, 8)
    IN  \E k \in 1..Len(cs) :
           /\ cs[k] + 8 <= Len(buf)
           /\ RefType(buf, cs[k]) = PLTE
           /\ RefU32(buf, cs[k]) % 3 # 0

\* C3 as stated: every stream holding a PLTE chunk whose length is not a
\* multiple of 3 fails with the PLTE-length error.
C3_Original ==
    (HasBadPLTE(arrayBuffer) /\ pstate # "running") =>
        (pstate = "failed" /\ perr = ErrPLTELength)

\* C3 amended: whenever the parser reaches a PLTE chunk whose data and CRC lie
\* inside the buffer and whose length is not a multiple of 3, that iteration
\* throws the PLTE-length error, whatever chunks were parsed before it.
C3_BadPLTERejected ==
    [][(/\ pstate = "running"
        /\ WholeChunkAt(arrayBuffer, pos, PLTE)
        /\ RefU32(arrayBuffer, pos) % 3 # 0)
       => (pstate' = "failed" /\ perr' = ErrPLTELength /\ data' = None)]_vars

C3_Witness ==
    /\ pstate = "failed"
    /\ perr = ErrPLTELength
    /\ WholeChunkAt(arrayBuffer, pos, PLTE)
    /\ Len(chunks) = 2
    /\ chunks[1].fourCC # IHDR
    /\ chunks[2].fourCC = IHDR

\* ------------------------------------------------------------------- C4
\* The colour type an IHDR record declares in its own 13-byte payload.
DeclaredColourType(rec) == IF Len(rec.data) >= 10 THEN rec.data[10] ELSE -1

IHDRsSeen(cs) == {k \in 1..Len(cs) : cs[k].fourCC = IHDR}

\* C4: when the parser reaches an empty PLTE chunk and the one IHDR chunk seen
\* earlier, at whatever position, declares colourType 3, that iteration throws
\* the missing-palette error.
C4_EmptyPLTEColourType3 ==
    [][(/\ pstate = "running"
        /\ WholeChunkAt(arrayBuffer, pos, PLTE)
        /\ RefU32(arrayBuffer, pos) = 0
        /\ Cardinality(IHDRsSeen(chunks)) = 1
        /\ \A k \in IHDRsSeen(chunks) : DeclaredColourType(chunks[k]) = 3)
       => (pstate' = "failed" /\ perr' = ErrPLTEMissing)]_vars

\* ------------------------------------------------------------------- C5
HeaderFirst(buf, cts) ==
    /\ WholeChunkAt(buf, 8, IHDR)
    /\ RefU32(buf, 8) = 13
    /\ RefData(buf, 8)[10] \in cts

PLTECursors(buf) ==
    LET cs == RefCursors(buf, 8)
    IN  {cs[k] : k \in {j \in 1..Len(cs) : RefType(buf, cs[j]) = PLTE}}

\* C5: with a header of colourType 0 or 4, a PLTE chunk of non-zero length
\* divisible by 3 makes the iteration warn and go on: the PLTE record is
\* appended, the loop continues behind the chunk; and a well-framed stream all
\* of whose PLTE chunks are of this kind is returned whole, with one warning
\* per PLTE chunk.
C5_UnusedPaletteWarns ==
    /\ [][(/\ pstate = "running"
           /\ HeaderFirst(arrayBuffer, {0, 4})
           /\ pos > 8
           /\ WholeChunkAt(arrayBuffer, pos, PLTE)
           /\ RefU32(arrayBuffer, pos) # 0
           /\ RefU32(arrayBuffer, pos) % 3 = 0)
          => (/\ pstate' = "running"
              /\ Len(warnings') = Len(warnings) + 1
              /\ Len(chunks') = Len(chunks) + 1
              /\ SubSeq(chunks', 1, Len(chunks)) = chunks
              /\ chunks'[Len(chunks')].fourCC = PLTE
              /\ MatchesFrame(chunks'[Len(chunks')], arrayBuffer, pos)
              /\ pos' = RefEnd(arrayBuffer, pos))]_vars
    /\ []((/\ pstate # "running"
           /\ WellFramed(arrayBuffer)
           /\ HeaderFirst(arrayBuffer, {0, 4})
           /\ \A c \in PLTECursors(arrayBuffer) :
                  RefU32(arrayBuffer, c) # 0 /\ RefU32(arrayBuffer, c) % 3 = 0)
          => (/\ pstate = "done"
              /\ Len(Value(data)) = Len(RefCursors(arrayBuffer, 8))
              /\ Len(warnings) = Cardinality(PLTECursors(arrayBuffer))))

C5_Witness ==
    /\ pstate = "done"
    /\ HeaderFirst(arrayBuffer, {0, 4})
    /\ Len(warnings) = 1
    /\ Len(Value(data)) = 3
    /\ Value(data)[2].fourCC = PLTE /\ Value(data)[2].size = 3
    /\ Value(data)[3].fourCC = IDAT

\* ------------------------------------------------------------------- C6
\* The reconstruction of spec 4.2 for channel idx of the pixel at (row, col),
\* both 0-based, read off the payload arr of rows of 1 + 4 * w bytes.
RECURSIVE Recon(_, _, _, _, _)
Recon(arr, w, row, col, idx) ==
    IF row < 0 \/ col < 0 THEN 0
    ELSE LET base == row * (1 + 4 * w)
             f == arr[base + 1]
             x == arr[base + 1 + 4 * col + idx]
             a == Recon(arr, w, row, col - 1, idx)
             b == Recon(arr, w, row - 1, col, idx)
             c == Recon(arr, w, row - 1, col - 1, idx)
             p == a + b - c
             pa == Abs(p - a)
             pb == Abs(p - b)
             pc == Abs(p - c)
         IN  CASE f = 0 -> x
               [] f = 1 -> (x + a) % 256
               [] f = 2 -> (x + b) % 256
               [] f = 3 -> (x + ((a + b) \div 2)) % 256
               [] f = 4 -> (x + (IF pa <= pb /\ pa <= pc THEN a
                                 ELSE IF pb <= pc THEN b ELSE c)) % 256

\* The 0-based indices of the scanlines that start inside the payload.
Scanlines(arr, w) == {row \in 0..Len(arr) : row * (1 + 4 * w) < Len(arr)}

ScanlineFilter(arr, w, row) == arr[row * (1 + 4 * w) + 1]

\* C6: when every scanline of the payload carries a filter byte in 0..4, each
\* channel of each pixel of the returned grid equals the reference
\* reconstruction (None, Sub, Up, Average, Paeth with ties resolved to the
\* left neighbour) of the payload byte at that row, column and channel.
C6_MatchesReconstruction ==
    (/\ fstate = "done"
     /\ \A row \in Scanlines(array, widthPixels) :
            ScanlineFilter(array, widthPixels, row) \in 0..4)
    => \A row \in 1..Len(Value(grid)) :
          \A col \in 2..Len(Value(grid)[row]) :
             \A idx \in 1..Len(Value(grid)[row][col]) :
                Value(grid)[row][col][idx] = Recon(array, widthPixels, row - 1, col - 2, idx)

\* A Paeth row in which, for some channel of the second pixel, the predictor
\* is the above-left neighbour c, and for another the three distances tie.
C6_Witness ==
    /\ fstate = "done"
    /\ Len(Value(grid)) = 2
    /\ Len(Value(grid)[2]) = 3
    /\ Value(grid)[1][1] = 3
    /\ Value(grid)[2][1] = 4
    /\ \E idx \in 1..4 :
          LET a == Value(grid)[2][2][idx]
              b == Value(grid)[1][3][idx]
              c == Value(grid)[1][2][idx]
              p == a + b - c
          IN  Abs(p - c) < Abs(p - a) /\ Abs(p - c) < Abs(p - b)
    /\ \E idx \in 1..4 :
          LET a == Value(grid)[2][2][idx]
              b == Value(grid)[1][3][idx]
              c == Value(grid)[1][2][idx]
          IN  a = b /\ b = c /\ a # 0

\* ------------------------------------------------------------------- C7
\* C7: round trip - a grid of pixels put through the PNG forward filter, one
\* filter type 0..4 per row, is reproduced exactly by reverseFiltering (each
\* row led by its filter type).
C7_RoundTrip ==
    (/\ mode = "filtered"
     /\ \A row \in 1..Len(ftypes) : ftypes[row] \in 0..4
     /\ fstate # "running")
    => /\ fstate = "done"
       /\ grid = Some([row \in 1..Len(source) |-> <<ftypes[row]>> \o source[row]])

C7_Witness ==
    /\ mode = "filtered"
    /\ fstate = "done"
    /\ ftypes = <<3, 4>>
    /\ Len(source[1]) = 2
    /\ array # Payload(source, ftypes, "raw")
    /\ grid = Some([row \in 1..2 |-> <<ftypes[row]>> \o source[row]])
    /\ source[1][1] # source[1][2]
    /\ source[2][1] # source[1][1]

\* ------------------------------------------------------------------- C8
HasBadScanline(arr, w) ==
    \E row \in Scanlines(arr, w) : ScanlineFilter(arr, w, row) \notin 0..4

\* C8: a payload one of whose scanlines starts with a byte outside 0..4 makes
\* reverseFiltering throw the filter-byte error; nothing is returned, not even
\* the rows reconstructed before the bad one.
C8_BadFilterByteAborts ==
    HasBadScanline(array, widthPixels) =>
        /\ fstate # "done"
        /\ grid = None
        /\ fstate # "running" => (fstate = "failed" /\ ferr = ErrFilterByte)

\* The bad scanline is the last one and follows a reconstructed row.
C8_Witness ==
    /\ fstate = "failed"
    /\ ferr = ErrFilterByte
    /\ grid = None
    /\ Len(res) = 2
    /\ Len(res[1]) = 1 + widthPixels
    /\ res[1][1] \in 1..4
    /\ res[2] = <<5>>
    /\ Scanlines(array, widthPixels) = {0, 1}

\* --------------------------------------------------------------- subImage
\* JavaScript values of the arguments: a number, a string, or an array.
\* A number is val + half/2: Num(n) is the integer n, Half(n) is n + 0.5.
Num(n) == [type |-> "number", val |-> n, half |-> 0]
Half(n) == [type |-> "number", val |-> n, half |-> 1]
Str(t) == [type |-> "string", val |-> t, half |-> 0]
Arr(a) == [type |-> "array", val |-> a, half |-> 0]

\* Twice the value of a number, an integer.
twice(v) == (2 * v.val) + v.half

\* v <= 0
lessOrEqualZero(v) == twice(v) <= 0

\* The least integer that is not below v: an integer i satisfies i < v + m,
\* m an integer, exactly when i < ceiling(v) + m.
ceiling(v) == v.val + v.half

\* ToIntegerOrInfinity of h/2, the conversion slice applies to its arguments:
\* the fraction is dropped, towards zero.
toInteger(h) == IF h >= 0 THEN h \div 2 ELSE -((-h) \div 2)

ErrGridType == "Incorrect type for imageDataBuffer."
ErrTileSize == "Invalid tileSize"
ErrMargins == "Invalid margins"
ErrSubImage == "Error trying to get subimage."

\* typeof tileSize.x !== 'number' || typeof tileSize.y !== 'number'
\*     || tileSize.x <= 0 || tileSize.y <= 0
\* (tileSize and margins are always objects that hold both of their keys)
invalidTileSize(ts) ==
    \/ ts.x.type # "number" \/ ts.y.type # "number"
    \/ lessOrEqualZero(ts.x) \/ lessOrEqualZero(ts.y)

\* typeof margins.xMargin !== 'number' || typeof margins.yMargin !== 'number'
invalidMargins(m) == m.xMargin.type # "number" \/ m.yMargin.type # "number"

\* Faulty variant of loopEnd: one row too many (i <= tileHeight + yMargin).
loopEndInclusive(tileHeight, yMargin) == tileHeight + yMargin + 1
\* The exclusive upper bound of `for (let i = yMargin; i < tileHeight + yMargin; i++)`.
loopEnd(tileHeight, yMargin) == tileHeight + yMargin

\* imageDataBuffer[i] is undefined outside the array, and calling .slice on it
\* throws the TypeError the catch block wraps.
rowUndefined(rows, i0) == i0 < 0 \/ i0 >= Len(rows)

\* imageDataBuffer[i].slice(xMargin + 1, xMargin + 1 + tileWidth), xMargin and
\* tileWidth numbers.
rowSlice(row, xMargin, tileWidth) ==
    slice(row, toInteger(twice(xMargin) + 2),
               toInteger(twice(xMargin) + 2 + twice(tileWidth)))

SubThrow(e) ==
    /\ sstate' = "failed"
    /\ serr' = e
    /\ UNCHANGED subImage

\* One call of subImage(imageDataBuffer, tileSize, margins).
SubImage ==
    /\ sstate = "called"
    /\ IF imageDataBuffer.type # "array" THEN SubThrow(ErrGridType)
       ELSE IF invalidTileSize(tileSize) THEN SubThrow(ErrTileSize)
       ELSE IF invalidMargins(margins) THEN SubThrow(ErrMargins)
       ELSE LET xMargin == margins.xMargin
                yMargin == margins.yMargin
                tileWidth == tileSize.x
                tileHeight == tileSize.y
                rows == imageDataBuffer.val
                visited == yMargin.val..(loopEnd(ceiling(tileHeight), yMargin.val) - 1)
            IN  \* tileHeight > 0: the loop body runs at least once, and for a
                \* yMargin that is no integer imageDataBuffer[i] is undefined.
                IF yMargin.half = 1 \/ \E i0 \in visited : rowUndefined(rows, i0)
                THEN SubThrow(ErrSubImage)
                ELSE /\ subImage' =
                          Some(<<0>> \o [k \in 1..Cardinality(visited) |->
                                         rowSlice(rows[yMargin.val + k], xMargin, tileWidth)])
                     /\ sstate' = "done"
                     /\ UNCHANGED serr
    /\ UNCHANGED <<parseVars, data, filterVars, imageDataBuffer, tileSize, margins, heap>>

\* ---------------------------------------------------- input grids
\* A pixel grid of h rows of 1 + w entries; every pixel names its position.
PositionPixel(row, col) == <<row, col, (10 * row) + col, 255>>

PixelGrid(w, h) ==
    [row \in 1..h |-> <<row % 5>> \o [col \in 1..w |-> PositionPixel(row, col)]]

\* Integers and numbers that are no integers (0.5, 1.5; -0.5, 0.5).
TileNumbers == {Num(n) : n \in -1..MaxTile} \cup {Half(0), Half(1)}
MarginNumbers == {Num(n) : n \in -2..MaxMargin} \cup {Half(-1), Half(0)}

InitSub ==
    /\ ParseIdle
    /\ data = None
    /\ FilterIdle
    /\ imageDataBuffer \in
          {Arr(PixelGrid(w, h)) : w \in 1..MaxGrid, h \in 1..MaxGrid} \cup {Str("grid")}
    /\ tileSize \in [x : TileNumbers \cup {Str("2")}, y : TileNumbers \cup {Str("2")}]
    /\ margins \in [xMargin : MarginNumbers \cup {Str("1")},
                    yMargin : MarginNumbers \cup {Str("1")}]
    /\ subImage = None
    /\ sstate = "called"
    /\ serr = Null
    /\ heap = <<>>

NextSub == SubImage

SpecSub == InitSub /\ [][NextSub]_vars

\* ------------------------------------------------------------------- C9
\* A grid, a tile size of positive integers and margins that are integers.
ValidArguments ==
    /\ imageDataBuffer.type = "array"
    /\ tileSize.x.type = "number" /\ tileSize.y.type = "number"
    /\ tileSize.x.half = 0 /\ tileSize.y.half = 0
    /\ tileSize.x.val > 0 /\ tileSize.y.val > 0
    /\ margins.xMargin.type = "number" /\ margins.yMargin.type = "number"
    /\ margins.xMargin.half = 0 /\ margins.yMargin.half = 0

\* Number of pixel groups of a grid row: its entries without the filter byte.
PixelGroups(row) == Len(row) - 1

SelectedRows ==
    {i0 \in margins.yMargin.val..(margins.yMargin.val + tileSize.y.val - 1) :
        0 <= i0 /\ i0 < Len(imageDataBuffer.val)}

OutOfRange ==
    \/ margins.yMargin.val + tileSize.y.val > Len(imageDataBuffer.val)
    \/ \E i0 \in SelectedRows :
          margins.xMargin.val + tileSize.x.val > PixelGroups(imageDataBuffer.val[i0 + 1])
    \/ margins.xMargin.val < 0
    \/ margins.yMargin.val < 0

\* C9: an access out of range (the tile reaches past the last row, or past the
\* last pixel group of a selected row, or a margin is negative) makes subImage
\* throw the wrapped extraction error; it never returns fewer than tileSize.y
\* rows or a row of fewer than tileSize.x pixel groups.
C9_OutOfRangeThrows ==
    (ValidArguments /\ sstate # "called") =>
        /\ OutOfRange => (sstate = "failed" /\ serr = ErrSubImage)
        /\ sstate = "done" =>
              /\ Len(Value(subImage)) = 1 + tileSize.y.val
              /\ \A k \in 2..Len(Value(subImage)) : Len(Value(subImage)[k]) = tileSize.x.val

\* ------------------------------------------------------------------ C10
InBounds ==
    /\ 0 <= margins.yMargin.val
    /\ margins.yMargin.val + tileSize.y.val <= Len(imageDataBuffer.val)
    /\ 0 <= margins.xMargin.val
    /\ \A row \in 1..Len(imageDataBuffer.val) :
          margins.xMargin.val + tileSize.x.val <= PixelGroups(imageDataBuffer.val[row])

\* C10: for a tile inside the grid, subImage returns 1 + tileSize.y elements:
\* the scalar 0, then for k = 1..tileSize.y the tileSize.x pixel groups of
\* source row yMargin + k - 1 at pixel columns xMargin..xMargin + tileSize.x - 1,
\* the row's filter byte left out.
C10_TileInsideGrid ==
    (ValidArguments /\ InBounds /\ sstate # "called") =>
        /\ sstate = "done"
        /\ Len(Value(subImage)) = 1 + tileSize.y.val
        /\ Value(subImage)[1] = 0
        /\ \A k \in 1..tileSize.y.val :
              /\ Len(Value(subImage)[k + 1]) = tileSize.x.val
              /\ \A j \in 1..tileSize.x.val :
                    Value(subImage)[k + 1][j] =
                        PositionPixel(margins.yMargin.val + k, margins.xMargin.val + j)

\* The 2 x 2 tile at offset (1, 1) of a 4 x 4 grid.
C10_Witness ==
    /\ sstate = "done"
    /\ ValidArguments
    /\ InBounds
    /\ margins.xMargin.val = 1 /\ margins.yMargin.val = 1
    /\ tileSize.x.val = 2 /\ tileSize.y.val = 2
    /\ Len(imageDataBuffer.val) = 4
    /\ PixelGroups(imageDataBuffer.val[1]) = 4
    /\ subImage = Some(<<0, <<PositionPixel(2, 2), PositionPixel(2, 3)>>,
                            <<PositionPixel(3, 2), PositionPixel(3, 3)>>>>)

\* ------------------------------------------------------------------ C11
NotPositiveInteger(v) == v.type # "number" \/ v.half = 1 \/ v.val <= 0

NotInteger(v) == v.type # "number" \/ v.half = 1

BadTileSize == NotPositiveInteger(tileSize.x) \/ NotPositiveInteger(tileSize.y)

BadMargins == NotInteger(margins.xMargin) \/ NotInteger(margins.yMargin)

\* C11: a call whose grid is no sequence fails with the grid-type error; else
\* a call whose tile size x or y is no positive integer (zero, negative, a
\* number that is no integer, no number) fails with the invalid-tile-size
\* error; else a call whose xMargin or yMargin is no integer fails with the
\* invalid-margins error; none of these calls returns a sub-grid.
C11_PreconditionErrors ==
    sstate # "called" =>
        /\ imageDataBuffer.type # "array" =>
              (sstate = "failed" /\ serr = ErrGridType /\ subImage = None)
        /\ (imageDataBuffer.type = "array" /\ BadTileSize) =>
              (sstate = "failed" /\ serr = ErrTileSize /\ subImage = None)
        /\ (imageDataBuffer.type = "array" /\ ~BadTileSize /\ BadMargins) =>
              (sstate = "failed" /\ serr = ErrMargins /\ subImage = None)

\* ------------------------------------------------------------------ C12
\* The stream's first chunk is tagged IHDR and no later chunk is.
OneHeaderFirst(buf) ==
    LET cs == RefCursors(buf, 8)
    IN  /\ cs # <<>>
        /\ \A k \in 1..Len(cs) : (RefType(buf, cs[k]) = IHDR) <=> (k = 1)

HasChunkInfo(rec) == "chunkInfo" \in DOMAIN rec

\* C12 as stated: every returned chunk sequence holds exactly one chunk tagged
\* IHDR, as its first element, and chunkInfo is attached to that chunk only.
C12_Original ==
    pstate = "done" =>
        /\ IHDRsSeen(Value(data)) = {1}
        /\ \A k \in 1..Len(Value(data)) : HasChunkInfo(Value(data)[k]) <=> (k = 1)

\* C12 amended: the chunk sequence returned for a stream whose first chunk is
\* tagged IHDR and that holds no other IHDR chunk has exactly one chunk tagged
\* IHDR, its first element; and in every returned sequence chunkInfo is
\* attached to the chunks tagged IHDR and to no other chunk, and holds the
\* fields read at the stream offsets 16..28.
C12_HeaderFirstOnce ==
    pstate = "done" =>
        /\ OneHeaderFirst(arrayBuffer) => IHDRsSeen(Value(data)) = {1}
        /\ \A k \in 1..Len(Value(data)) :
              LET rec == Value(data)[k]
              IN  /\ HasChunkInfo(rec) <=> (rec.fourCC = IHDR)
                  /\ HasChunkInfo(rec) =>
                        /\ rec.chunkInfo.widthPixels = RefU32(arrayBuffer, 16)
                        /\ rec.chunkInfo.heightPixels = RefU32(arrayBuffer, 20)
                        /\ rec.chunkInfo.bitDepth = arrayBuffer[25]
                        /\ rec.chunkInfo.colourType = arrayBuffer[26]
                        /\ rec.chunkInfo.filterMethod = arrayBuffer[28]
                        /\ rec.chunkInfo.interlaceMethod = arrayBuffer[29]

\* A header of colourType 2 followed by two chunks that are no headers.
C12_Witness ==
    /\ pstate = "done"
    /\ OneHeaderFirst(arrayBuffer)
    /\ Len(Value(data)) = 3
    /\ HasChunkInfo(Value(data)[1])
    /\ Value(data)[1].chunkInfo.colourType = 2
    /\ Value(data)[2].fourCC = tRNS
    /\ Value(data)[3].fourCC = IDAT

\* ------------------------------------------------------------------ C13
\* C13: the chunk sequence returned for a stream whose one IHDR chunk, the
\* first chunk, declares colourType 3 holds a PLTE chunk of non-zero length:
\* such a stream without a PLTE chunk is not accepted.
C13_PaletteForColourType3 ==
    (/\ pstate = "done"
     /\ OneHeaderFirst(arrayBuffer)
     /\ HeaderFirst(arrayBuffer, {3})) =>
        \E k \in 1..Len(Value(data)) :
            Value(data)[k].fourCC = PLTE /\ Value(data)[k].size # 0

\* ------------------------------------------------------------------ C14
\* The height the header declares.
heightPixels == Value(data)[1].chunkInfo.heightPixels

\* heightPixels rows of 1 + widthPixels entries: the scanline's filter byte
\* and widthPixels pixel groups of 4 channel values.
WholeGrid(g) ==
    /\ Len(g) = heightPixels
    /\ \A row \in 1..Len(g) :
          /\ Len(g[row]) = 1 + widthPixels
          /\ g[row][1] = array[((row - 1) * (1 + 4 * widthPixels)) + 1]
          /\ \A col \in 2..Len(g[row]) : Len(g[row][col]) = 4

FreshPixel == 0

RefGrid(w, h) ==
    [row \in 1..h |-> <<row % 5>> \o [col \in 1..w |-> ((row - 1) * w) + col]]

RefHeap(w, h) ==
    [r \in 0..(w * h) |->
        IF r = FreshPixel THEN <<9, 9, 9, 9>>
        ELSE PositionPixel(((r - 1) \div w) + 1, ((r - 1) % w) + 1)]

InitShare ==
    /\ ParseIdle
    /\ data = None
    /\ FilterIdle
    /\ \E w \in 1..MaxGrid, h \in 1..MaxGrid :
          /\ imageDataBuffer = Arr(RefGrid(w, h))
          /\ heap = RefHeap(w, h)
    /\ tileSize \in [x : {Num(n) : n \in 1..MaxTile}, y : {Num(n) : n \in 1..MaxTile}]
    /\ margins \in [xMargin : {Num(n) : n \in 0..MaxMargin},
                    yMargin : {Num(n) : n \in 0..MaxMargin}]
    /\ subImage = None
    /\ sstate = "called"
    /\ serr = Null

\* The caller's statement  sub[k][j] = <another pixel group>.
WriteSubEntry ==
    /\ sstate = "done"
    /\ \E k \in 2..Len(Value(subImage)) :
          \E j \in 1..Len(Value(subImage)[k]) :
             subImage' = Some([Value(subImage) EXCEPT ![k][j] = FreshPixel])
    /\ sstate' = "subWritten"
    /\ UNCHANGED <<parseVars, data, filterVars, imageDataBuffer, tileSize, margins,
                   serr, heap>>

\* The caller's statement  sub[k][j][idx] = <another value>.
WriteSubChannel ==
    /\ sstate = "done"
    /\ \E k \in 2..Len(Value(subImage)) :
          \E j \in 1..Len(Value(subImage)[k]) :
             \E idx \in 1..4 :
                heap' = [heap EXCEPT ![Value(subImage)[k][j]][idx] = (@ + 1) % 256]
    /\ sstate' = "subWritten"
    /\ UNCHANGED <<parseVars, data, filterVars, imageDataBuffer, tileSize, margins,
                   subImage, serr>>

\* The caller's statement  imageDataBuffer[row][col] = <another pixel group>.
WriteSourceEntry ==
    /\ sstate = "done"
    /\ \E row \in 1..Len(imageDataBuffer.val) :
          \E col \in 2..Len(imageDataBuffer.val[row]) :
             imageDataBuffer' = Arr([imageDataBuffer.val EXCEPT ![row][col] = FreshPixel])
    /\ sstate' = "sourceWritten"
    /\ UNCHANGED <<parseVars, data, filterVars, tileSize, margins, subImage, serr, heap>>

\* The caller's statement  imageDataBuffer[row][col][idx] = <another value>.
WriteSourceChannel ==
    /\ sstate = "done"
    /\ \E row \in 1..Len(imageDataBuffer.val) :
          \E col \in 2..Len(imageDataBuffer.val[row]) :
             \E idx \in 1..4 :
                heap' = [heap EXCEPT ![imageDataBuffer.val[row][col]][idx] = (@ + 1) % 256]
    /\ sstate' = "sourceWritten"
    /\ UNCHANGED <<parseVars, data, filterVars, imageDataBuffer, tileSize, margins,
                   subImage, serr>>

NextShare ==
    \/ SubImage
    \/ WriteSubEntry
    \/ WriteSubChannel
    \/ WriteSourceEntry
    \/ WriteSourceChannel

SpecShare == InitShare /\ [][NextShare]_vars

\* The channel values of the source grid, row by row behind the filter byte.
SourceChannels ==
    [row \in 1..Len(imageDataBuffer.val) |->
        [col \in 1..(Len(imageDataBuffer.val[row]) - 1) |->
            heap[imageDataBuffer.val[row][col + 1]]]]

\* The channel values of the returned sub-grid.
SubChannels ==
    [k \in 1..(Len(Value(subImage)) - 1) |->
        [j \in 1..Len(Value(subImage)[k + 1]) |-> heap[Value(subImage)[k + 1][j]]]]

\* C15: the call leaves every channel value of the source grid as it was; a
\* later write to a row entry or to a channel of a pixel group of the
\* sub-grid leaves every channel value of the source grid as it was; and a
\* later write to the source grid leaves the sub-grid as it was.
C15_IndependentCopy ==
    [][/\ (sstate = "called" /\ sstate' # "called") => SourceChannels' = SourceChannels
       /\ sstate' = "subWritten" => SourceChannels' = SourceChannels
       /\ sstate' = "sourceWritten" => SubChannels' = SubChannels]_vars

\* ------------------------------------------------------------------ C16
\* The copy of reverseFiltering in src/unnamed/part_000, as a function of the
\* payload arr and of widthBytes wB.  Its loop state is a record st of the
\* locals i, lineNum, pixelCount, filterByte, res and tempArr, and of err, the
\* error thrown (Null while none is).
NaN == -1

\* p[c], undefined (NaN in arithmetic) behind the end of the array p.
at(p, c) == IF c <= Len(p) THEN p[c] ELSE NaN

\* let ret = x + y; if (ret >= 256) ret -= 256;
add256(x, y) ==
    IF x = NaN \/ y = NaN THEN NaN
    ELSE IF x + y >= 256 THEN x + y - 256 ELSE x + y

\* ~~((l + u) / 2): the fraction dropped, NaN turned into 0.
truncHalf(l, u) == IF l = NaN \/ u = NaN THEN 0 ELSE (l + u) \div 2

\* ~~((0 + up) / 2) for an array up: 0 + up is the text "0" followed by the
\* elements of up joined by commas, a number only for fewer than 2 elements.
truncHalfOfArray(up) ==
    IF Len(up) = 0 THEN 0 ELSE IF Len(up) = 1 /\ up[1] # NaN THEN up[1] \div 2 ELSE 0

\* row[k] (JavaScript index k) is undefined.
entryUndefined(row, k) == k + 1 > Len(row)

\* a.reduce((acc, curr) => acc + curr), a not empty.
RECURSIVE reduceSum(_)
reduceSum(a) == IF Len(a) = 1 THEN a[1] ELSE a[1] + reduceSum(Tail(a))

copyInit ==
    [i |-> 0, lineNum |-> -1, pixelCount |-> 0, filterByte |-> Null,
     res |-> <<(<<>>)>>, tempArr |-> <<>>, err |-> Null]

\* One iteration of `for (let i = 0; i < arrayBuffer.length; i += 4)`.
copyStep(arr, wB, st) ==
    LET newLine == st.i % wB = 0 \/ st.i = 0
        i1 == IF newLine THEN st.i + 1 ELSE st.i
        fb == IF newLine THEN arr[st.i + 1] ELSE st.filterByte
        pc == IF newLine THEN 0 ELSE st.pixelCount
        ln == IF newLine THEN st.lineNum + 1 ELSE st.lineNum
        rowFresh == ln + 1 > Len(st.res) \/ Len(st.res[ln + 1]) = 0
        r == IF rowFresh
             THEN [k \in 1..(ln + 1) |-> IF k = ln + 1 THEN <<fb>> ELSE st.res[k]]
             ELSE st.res
        row == r[ln + 1]
        cur == slice(arr, i1, i1 + 4)
        tmpArr == IF rowFresh THEN cur
                  ELSE IF newLine THEN slice(arr, st.i, st.i + 4) ELSE st.tempArr
        firstColumn == ~(i1 > (wB * ln) + 3)
        Out(newRow, t, e) ==
            [i |-> i1 + 4, lineNum |-> ln, pixelCount |-> pc + 1, filterByte |-> fb,
             res |-> [r EXCEPT ![ln + 1] = newRow], tempArr |-> t, err |-> e]
        Fail(e) == Out(row, tmpArr, e)
    IN  CASE fb = 0 -> Out(Append(row, cur), tmpArr, Null)
          [] fb = 1 ->
               IF ~firstColumn
               THEN LET pushed == [c \in 1..Len(cur) |-> add256(cur[c], at(tmpArr, c))]
                        newRow == Append(row, pushed)
                    IN  Out(newRow, newRow[pc + 2], Null)
               ELSE Out(Append(row, cur), cur, Null)
          [] fb = 2 ->
               IF ln > 0
               THEN IF Len(cur) > 0 /\ entryUndefined(r[ln], pc + 1) THEN Fail("TypeError")
                    ELSE Out(Append(row, [c \in 1..Len(cur) |->
                                             add256(cur[c], at(r[ln][pc + 2], c))]),
                             tmpArr, Null)
               ELSE Out(Append(row, cur), cur, Null)
          [] fb = 3 ->
               IF ln > 0 /\ ~firstColumn
               THEN \* res[lineNum][pixelCount + 1] is the entry about to be pushed
                    IF Len(cur) > 0 /\ (\/ entryUndefined(row, pc + 1)
                                        \/ entryUndefined(r[ln], pc + 1))
                    THEN Fail("TypeError")
                    ELSE Out(Append(row, [c \in 1..Len(cur) |->
                                 add256(cur[c], truncHalf(at(row[pc + 2], c),
                                                          at(r[ln][pc + 2], c)))]),
                             tmpArr, Null)
               ELSE IF ~(ln > 0)
               THEN IF Len(cur) > 0 /\ entryUndefined(row, pc + 1) THEN Fail("TypeError")
                    ELSE Out(Append(Append(row, [c \in 1..Len(cur) |->
                                 add256(cur[c], truncHalf(at(row[pc + 2], c), 0))]), cur),
                             cur, Null)
               ELSE \* first column: the average of tmp[c] and an array of the row above
                    Out(Append(Append(row, [c \in 1..Len(cur) |->
                            add256(cur[c],
                                   IF entryUndefined(r[ln], pc + 1) THEN 0
                                   ELSE truncHalfOfArray(r[ln][pc + 2]))]), cur),
                        cur, Null)
          [] fb = 4 ->
               LET zero == <<0, 0, 0, 0>>
                   a == IF pc # 0 THEN row[pc + 1] ELSE zero
                   b == IF ln > 0 THEN r[ln][pc + 2] ELSE zero
                   c == IF ln > 0 /\ pc # 0 THEN r[ln][pc + 1] ELSE zero
                   p == reduceSum(a) + reduceSum(b) - reduceSum(c)
                   pa == Abs(p - reduceSum(a))
                   pb == Abs(p - reduceSum(b))
                   pcc == Abs(p - reduceSum(c))
                   pred == IF pa <= pb /\ pa <= pcc THEN a ELSE IF pb <= pcc THEN b ELSE c
               IN  IF (ln > 0 /\ entryUndefined(r[ln], pc + 1)) \/ Len(a) = 0 \/ Len(b) = 0
                      \/ Len(c) = 0
                   THEN Fail("TypeError")
                   ELSE Out(Append(row, [j \in 1..4 |-> add256(at(pred, j), at(cur, j))]),
                            tmpArr, Null)
          [] OTHER -> Fail(ErrFilterByte)

\* The loop run to its end: the record of the error thrown and of the grid
\* returned (none when an error was thrown).
RECURSIVE copyLoop(_, _, _)
copyLoop(arr, wB, st) ==
    IF st.err # Null THEN [err |-> st.err, res |-> None]
    ELSE IF st.i < Len(arr) THEN copyLoop(arr, wB, copyStep(arr, wB, st))
    ELSE [err |-> Null, res |-> Some(st.res)]

reverseFilteringCopy(arr, w) == copyLoop(arr, (w * 4) + 1, copyInit)

\* C16: on every payload the copy in src/unnamed/part_000 returns the grid the
\* copy in src/png_utils.js returns, and throws when that copy throws.
C16_CopiesEquivalent ==
    /\ fstate = "done" =>
          reverseFilteringCopy(array, widthPixels) = [err |-> Null, res |-> grid]
    /\ fstate = "failed" =>
          reverseFilteringCopy(array, widthPixels) = [err |-> ferr, res |-> None]

====
